---- MODULE Spec2Model ----
(***************************************************************************)
(* Model of the in-memory ledger service of src/src/main.rs: two account   *)
(* stores (vulnerable_accounts, secure_accounts), each behind its own      *)
(* std::sync::Mutex, and the four request handlers create_account,         *)
(* get_account, vulnerable_transfer and secure_transfer, executed by       *)
(* concurrent workers.  Balances are i32; `+=` and `-=` either panic or    *)
(* wrap on overflow, depending on the build profile.                       *)
(***************************************************************************)
EXTENDS Integers, FiniteSets, TLC

VARIABLES
    overflow_checks,      \* build profile: TRUE = arithmetic overflow panics, FALSE = it wraps
    vulnerable_accounts,  \* AppState.vulnerable_accounts: id -> BankAccount
    secure_accounts,      \* AppState.secure_accounts: id -> BankAccount
    vuln_lock,            \* the Mutex around vulnerable_accounts
    sec_lock,             \* the Mutex around secure_accounts
    next_id,              \* the next identifier Uuid::new_v4() hands out
    pc,                   \* each worker's position in its handler
    req,                  \* each worker's current request
    from_account,         \* secure_transfer's local from_account (a set of 0 or 1 accounts)
    to_account,           \* secure_transfer's local to_account   (a set of 0 or 1 accounts)
    response,             \* each worker's HTTP response, once the handler has returned
    pre,                  \* history: secure_accounts when the worker got the secure lock
    dropped,              \* history: accounts dropped by an unwinding secure_transfer
    nonneg_creates,       \* history: every account so far was created with a balance >= 0
    nreq                  \* history: the number of requests received so far

vars == <<overflow_checks, vulnerable_accounts, secure_accounts, vuln_lock, sec_lock,
          next_id, pc, req, from_account, to_account, response, pre, dropped,
          nonneg_creates, nreq>>

---------------------------------------------------------------------------
(* Bounds of the model *)

NumWorkers == 2
MaxAccounts == 2
MaxRequests == 4

Workers == 1..NumWorkers

(* Identifiers a request can name: those not handed out yet are absent from the stores. *)
ReqIds == 1..MaxAccounts

---------------------------------------------------------------------------
(* i32 arithmetic (balance: i32, amount: i32) *)

MaxI32 == 2147483647
MinI32 == (-2147483647) - 1

(* The i32 values the requests carry. *)
InitialBalances == {-5, 1, MaxI32}
Amounts == {-1, 0, 1, MaxI32}

AddOverflows(a, b) ==
    \/ b > 0 /\ a > MaxI32 - b
    \/ b < 0 /\ a < MinI32 - b

(* a + b modulo 2^32, as a two's complement i32, computed without leaving i32 *)
WrappingAdd(a, b) ==
    IF b > 0 /\ a > MaxI32 - b THEN MinI32 + (a - ((MaxI32 - b) + 1))
    ELSE IF b < 0 /\ a < MinI32 - b THEN MaxI32 - ((MinI32 - (b + 1)) - a)
    ELSE a + b

SubOverflows(a, b) ==
    \/ b < 0 /\ a > MaxI32 + b
    \/ b > 0 /\ a < MinI32 + b

(* a - b modulo 2^32, as a two's complement i32, computed without leaving i32 *)
WrappingSub(a, b) ==
    IF b < 0 /\ a > MaxI32 + b THEN MinI32 + (a - ((MaxI32 + b) + 1))
    ELSE IF b > 0 /\ a < MinI32 + b THEN MaxI32 - ((MinI32 + (b - 1)) - a)
    ELSE a - b

---------------------------------------------------------------------------
(* HashMap<Uuid, BankAccount> *)

EmptyMap == [k \in {} |-> 0]

MapInsert(m, k, v) == [x \in (DOMAIN m) \cup {k} |-> IF x = k THEN v ELSE m[x]]

MapRemove(m, k) == [x \in (DOMAIN m) \ {k} |-> m[x]]

(* HashMap::get / the Option that HashMap::remove returns: a set of 0 or 1 accounts *)
MapGet(m, k) == IF k \in DOMAIN m THEN {m[k]} ELSE {}

(* the account inside a Some(account) *)
Unwrap(opt) == CHOOSE a \in opt : TRUE

(* a cancel path that forgets to put the account back *)
PutBackSkipped(m, account) == m

(* accounts.insert(account.account_number, account) on the paths that cancel a transfer *)
PutBack(m, account) == MapInsert(m, account.account_number, account)

---------------------------------------------------------------------------
(* BankAccount *)

(* a constructor that refuses a negative initial balance by clamping it to 0 *)
NewAccountClamped(id, initial_balance) ==
    [account_number |-> id, balance |-> IF initial_balance < 0 THEN 0 ELSE initial_balance]

NewAccount(id, initial_balance) == [account_number |-> id, balance |-> initial_balance]

(* a withdraw that debits before it validates, so a failure leaves the debit behind *)
WithdrawDebitBeforeCheck(account, amount) ==
    LET debited == [account EXCEPT !.balance = WrappingSub(account.balance, amount)]
    IN IF amount <= 0
       THEN [ok |-> FALSE, err |-> "Withdrawal amount must be positive.", account |-> debited]
       ELSE IF account.balance >= amount
            THEN [ok |-> TRUE, err |-> "", account |-> debited]
            ELSE [ok |-> FALSE, err |-> "Insufficient funds.", account |-> debited]

(* a withdraw without the sufficient-funds check *)
WithdrawNoFundsCheck(account, amount) ==
    IF amount <= 0
    THEN [ok |-> FALSE, err |-> "Withdrawal amount must be positive.", account |-> account]
    ELSE [ok |-> TRUE, err |-> "",
          account |-> [account EXCEPT !.balance = WrappingSub(account.balance, amount)]]

(* a withdraw that looks at the funds before it looks at the sign of the amount *)
WithdrawFundsCheckFirst(account, amount) ==
    IF account.balance < amount
    THEN [ok |-> FALSE, err |-> "Insufficient funds.", account |-> account]
    ELSE IF amount <= 0
         THEN [ok |-> FALSE, err |-> "Withdrawal amount must be positive.", account |-> account]
         ELSE [ok |-> TRUE, err |-> "",
               account |-> [account EXCEPT !.balance = account.balance - amount]]

(* secure_account::BankAccount::withdraw *)
Withdraw(account, amount) ==
    IF amount <= 0
    THEN [ok |-> FALSE, err |-> "Withdrawal amount must be positive.", account |-> account]
    ELSE IF account.balance >= amount
         THEN [ok |-> TRUE, err |-> "",
               account |-> [account EXCEPT !.balance = account.balance - amount]]
         ELSE [ok |-> FALSE, err |-> "Insufficient funds.", account |-> account]

(* secure_account::BankAccount::deposit: `self.balance += amount` panics on overflow
   in a build with overflow checks and wraps in a build without them *)
Deposit(account, amount) ==
    IF amount > 0
    THEN [panic |-> overflow_checks /\ AddOverflows(account.balance, amount),
          account |-> [account EXCEPT !.balance = WrappingAdd(account.balance, amount)]]
    ELSE [panic |-> FALSE, account |-> account]

---------------------------------------------------------------------------
(* Mutex *)

FreeLock == [holder |-> 0, poisoned |-> FALSE]

(* dropping the MutexGuard on return *)
Unlock(lock) == [lock EXCEPT !.holder = 0]

(* dropping the MutexGuard while the thread unwinds from a panic *)
UnlockPanicking(lock) == [holder |-> 0, poisoned |-> TRUE]

---------------------------------------------------------------------------
(* Requests and responses *)

NoRequest == [kind |-> "none", from |-> 0, to |-> 0, amount |-> 0]

NoResponse == [status |-> 0, body |-> "", account |-> {}]

Respond(status, body) == [status |-> status, body |-> body, account |-> {}]

RespondJson(account) == [status |-> 200, body |-> "", account |-> {account}]

CanAccept(p) == pc[p] \in {"idle", "done", "panicked"} /\ nreq < MaxRequests

Accept(p, r, start) ==
    /\ req' = [req EXCEPT ![p] = r]
    /\ pc' = [pc EXCEPT ![p] = start]
    /\ response' = [response EXCEPT ![p] = NoResponse]
    /\ nreq' = nreq + 1
    /\ pre' = [pre EXCEPT ![p] = EmptyMap]
    /\ UNCHANGED <<overflow_checks, vulnerable_accounts, secure_accounts, vuln_lock,
                   sec_lock, next_id, from_account, to_account, dropped,
                   nonneg_creates>>

(* POST /accounts *)
ReqCreate(p) ==
    /\ CanAccept(p)
    /\ next_id <= MaxAccounts
    /\ \E b \in InitialBalances :
          Accept(p, [kind |-> "create", from |-> 0, to |-> 0, amount |-> b], "c_lock_vuln")

(* GET /accounts/{id} *)
ReqGet(p) ==
    /\ CanAccept(p)
    /\ \E id \in ReqIds :
          Accept(p, [kind |-> "get", from |-> id, to |-> 0, amount |-> 0], "g_lock")

(* POST /vulnerable/transfer *)
ReqVulnerable(p) ==
    /\ CanAccept(p)
    /\ \E f \in ReqIds, t \in ReqIds, a \in Amounts :
          Accept(p, [kind |-> "vulnerable", from |-> f, to |-> t, amount |-> a], "v_lock")

(* POST /secure/transfer *)
ReqSecure(p) ==
    /\ CanAccept(p)
    /\ \E f \in ReqIds, t \in ReqIds, a \in Amounts :
          Accept(p, [kind |-> "secure", from |-> f, to |-> t, amount |-> a], "s_lock")

---------------------------------------------------------------------------
(* Initial state: main() builds AppState with two empty maps *)

Init ==
    /\ overflow_checks \in BOOLEAN
    /\ vulnerable_accounts = EmptyMap
    /\ secure_accounts = EmptyMap
    /\ vuln_lock = FreeLock
    /\ sec_lock = FreeLock
    /\ next_id = 1
    /\ pc = [p \in Workers |-> "idle"]
    /\ req = [p \in Workers |-> NoRequest]
    /\ from_account = [p \in Workers |-> {}]
    /\ to_account = [p \in Workers |-> {}]
    /\ response = [p \in Workers |-> NoResponse]
    /\ pre = [p \in Workers |-> EmptyMap]
    /\ dropped = {}
    /\ nonneg_creates = TRUE
    /\ nreq = 0

---------------------------------------------------------------------------
(* Steps shared by the handlers *)

(* the handler returns resp; its locals are gone *)
Return(p, resp) ==
    /\ pc' = [pc EXCEPT ![p] = "done"]
    /\ response' = [response EXCEPT ![p] = resp]

(* the handler's thread panics: no response is produced *)
Panic(p) ==
    /\ pc' = [pc EXCEPT ![p] = "panicked"]
    /\ response' = [response EXCEPT ![p] = NoResponse]

Goto(p, label) ==
    /\ pc' = [pc EXCEPT ![p] = label]
    /\ UNCHANGED response

---------------------------------------------------------------------------
(* create_account *)

(* data.vulnerable_accounts.lock().unwrap() *)
CreateLockVuln(p) ==
    /\ pc[p] = "c_lock_vuln"
    /\ vuln_lock.holder = 0
    /\ IF vuln_lock.poisoned
       THEN Panic(p) /\ UNCHANGED vuln_lock
       ELSE Goto(p, "c_lock_sec") /\ vuln_lock' = [vuln_lock EXCEPT !.holder = p]
    /\ UNCHANGED <<overflow_checks, vulnerable_accounts, secure_accounts, sec_lock,
                   next_id, req, from_account, to_account, pre, dropped,
                   nonneg_creates, nreq>>

(* data.secure_accounts.lock().unwrap(), with the vulnerable guard held *)
CreateLockSec(p) ==
    /\ pc[p] = "c_lock_sec"
    /\ sec_lock.holder = 0
    /\ IF sec_lock.poisoned
       THEN /\ Panic(p)
            /\ vuln_lock' = UnlockPanicking(vuln_lock)
            /\ UNCHANGED <<sec_lock, pre>>
       ELSE /\ Goto(p, "c_insert")
            /\ sec_lock' = [sec_lock EXCEPT !.holder = p]
            /\ pre' = [pre EXCEPT ![p] = secure_accounts]
            /\ UNCHANGED vuln_lock
    /\ UNCHANGED <<overflow_checks, vulnerable_accounts, secure_accounts, next_id, req,
                   from_account, to_account, dropped, nonneg_creates, nreq>>

(* the two BankAccount::new, the two inserts under the same id, the response *)
CreateInsert(p) ==
    /\ pc[p] = "c_insert"
    /\ LET new_id == next_id
           vuln_account == NewAccount(new_id, req[p].amount)
           sec_account_mut == NewAccount(new_id, req[p].amount)
       IN /\ vulnerable_accounts' = MapInsert(vulnerable_accounts, new_id, vuln_account)
          /\ secure_accounts' = MapInsert(secure_accounts, new_id, sec_account_mut)
          /\ Return(p, RespondJson(vuln_account))
    /\ next_id' = next_id + 1
    /\ nonneg_creates' = (nonneg_creates /\ req[p].amount >= 0)
    /\ vuln_lock' = Unlock(vuln_lock)
    /\ sec_lock' = Unlock(sec_lock)
    /\ UNCHANGED <<overflow_checks, req, from_account, to_account, pre, dropped, nreq>>

---------------------------------------------------------------------------
(* get_account *)

(* data.secure_accounts.lock().unwrap() *)
GetLock(p) ==
    /\ pc[p] = "g_lock"
    /\ sec_lock.holder = 0
    /\ IF sec_lock.poisoned
       THEN Panic(p) /\ UNCHANGED <<sec_lock, pre>>
       ELSE /\ Goto(p, "g_read")
            /\ sec_lock' = [sec_lock EXCEPT !.holder = p]
            /\ pre' = [pre EXCEPT ![p] = secure_accounts]
    /\ UNCHANGED <<overflow_checks, vulnerable_accounts, secure_accounts, vuln_lock,
                   next_id, req, from_account, to_account, dropped, nonneg_creates, nreq>>

(* a lookup that takes the entry out of the map, as the transfer does *)
GetReadRemoves(p) ==
    /\ pc[p] = "g_read"
    /\ LET found == MapGet(secure_accounts, req[p].from)
       IN IF found # {}
          THEN Return(p, RespondJson(Unwrap(found)))
          ELSE Return(p, Respond(404, "Account not found"))
    /\ secure_accounts' = MapRemove(secure_accounts, req[p].from)
    /\ sec_lock' = Unlock(sec_lock)
    /\ UNCHANGED <<overflow_checks, vulnerable_accounts, vuln_lock,
                   next_id, req, from_account, to_account, pre, dropped, nonneg_creates,
                   nreq>>

(* match sec_accounts.get(&account_id) *)
GetRead(p) ==
    /\ pc[p] = "g_read"
    /\ LET found == MapGet(secure_accounts, req[p].from)
       IN IF found # {}
          THEN Return(p, RespondJson(Unwrap(found)))
          ELSE Return(p, Respond(404, "Account not found"))
    /\ sec_lock' = Unlock(sec_lock)
    /\ UNCHANGED <<overflow_checks, vulnerable_accounts, secure_accounts, vuln_lock,
                   next_id, req, from_account, to_account, pre, dropped, nonneg_creates,
                   nreq>>

---------------------------------------------------------------------------
(* vulnerable_transfer *)

(* a vulnerable_transfer that first takes the secure store's lock and keeps it
   while it waits for the vulnerable store's lock *)
VulnLockHoldingSecure(p) ==
    /\ pc[p] = "v_lock"
    /\ IF sec_lock.holder # p
       THEN /\ sec_lock.holder = 0
            /\ IF sec_lock.poisoned
               THEN Panic(p) /\ UNCHANGED <<sec_lock, vuln_lock>>
               ELSE /\ sec_lock' = [sec_lock EXCEPT !.holder = p]
                    /\ UNCHANGED <<pc, response, vuln_lock>>
       ELSE /\ vuln_lock.holder = 0
            /\ IF vuln_lock.poisoned
               THEN Panic(p) /\ sec_lock' = UnlockPanicking(sec_lock) /\ UNCHANGED vuln_lock
               ELSE /\ Goto(p, "v_debit")
                    /\ vuln_lock' = [vuln_lock EXCEPT !.holder = p]
                    /\ sec_lock' = Unlock(sec_lock)
    /\ UNCHANGED <<overflow_checks, vulnerable_accounts, secure_accounts,
                   next_id, req, from_account, to_account, pre, dropped,
                   nonneg_creates, nreq>>

(* data.vulnerable_accounts.lock().unwrap() *)
VulnLock(p) ==
    /\ pc[p] = "v_lock"
    /\ vuln_lock.holder = 0
    /\ IF vuln_lock.poisoned
       THEN Panic(p) /\ UNCHANGED vuln_lock
       ELSE Goto(p, "v_debit") /\ vuln_lock' = [vuln_lock EXCEPT !.holder = p]
    /\ UNCHANGED <<overflow_checks, vulnerable_accounts, secure_accounts, sec_lock,
                   next_id, req, from_account, to_account, pre, dropped,
                   nonneg_creates, nreq>>

(* *balance -= req.amount on the sender, or "Sender account not found" *)
VulnDebit(p) ==
    /\ pc[p] = "v_debit"
    /\ LET from_balance == MapGet(vulnerable_accounts, req[p].from)
       IN IF from_balance = {}
          THEN /\ Return(p, Respond(404, "Sender account not found"))
               /\ vuln_lock' = Unlock(vuln_lock)
               /\ UNCHANGED vulnerable_accounts
          ELSE LET a == Unwrap(from_balance)
               IN IF overflow_checks /\ SubOverflows(a.balance, req[p].amount)
                  THEN /\ Panic(p)
                       /\ vuln_lock' = UnlockPanicking(vuln_lock)
                       /\ UNCHANGED vulnerable_accounts
                  ELSE /\ Goto(p, "v_credit")
                       /\ vulnerable_accounts' =
                             [vulnerable_accounts EXCEPT ![req[p].from].balance =
                                 WrappingSub(a.balance, req[p].amount)]
                       /\ UNCHANGED vuln_lock
    /\ UNCHANGED <<overflow_checks, secure_accounts, sec_lock, next_id, req,
                   from_account, to_account, pre, dropped, nonneg_creates, nreq>>

(* a credit step that gives the sender the amount back when the receiver is missing *)
VulnCreditRollsBack(p) ==
    /\ pc[p] = "v_credit"
    /\ LET to_balance == MapGet(vulnerable_accounts, req[p].to)
       IN IF to_balance = {}
          THEN /\ Return(p, Respond(404, "Receiver account not found"))
               /\ vuln_lock' = Unlock(vuln_lock)
               /\ vulnerable_accounts' =
                     [vulnerable_accounts EXCEPT ![req[p].from].balance =
                         WrappingAdd(@, req[p].amount)]
          ELSE LET a == Unwrap(to_balance)
               IN IF overflow_checks /\ AddOverflows(a.balance, req[p].amount)
                  THEN /\ Panic(p)
                       /\ vuln_lock' = UnlockPanicking(vuln_lock)
                       /\ UNCHANGED vulnerable_accounts
                  ELSE /\ Return(p, Respond(200, "Vulnerable transfer processed."))
                       /\ vulnerable_accounts' =
                             [vulnerable_accounts EXCEPT ![req[p].to].balance =
                                 WrappingAdd(a.balance, req[p].amount)]
                       /\ vuln_lock' = Unlock(vuln_lock)
    /\ UNCHANGED <<overflow_checks, secure_accounts, sec_lock, next_id, req,
                   from_account, to_account, pre, dropped, nonneg_creates, nreq>>

(* *balance += req.amount on the receiver, or "Receiver account not found" *)
VulnCredit(p) ==
    /\ pc[p] = "v_credit"
    /\ LET to_balance == MapGet(vulnerable_accounts, req[p].to)
       IN IF to_balance = {}
          THEN /\ Return(p, Respond(404, "Receiver account not found"))
               /\ vuln_lock' = Unlock(vuln_lock)
               /\ UNCHANGED vulnerable_accounts
          ELSE LET a == Unwrap(to_balance)
               IN IF overflow_checks /\ AddOverflows(a.balance, req[p].amount)
                  THEN /\ Panic(p)
                       /\ vuln_lock' = UnlockPanicking(vuln_lock)
                       /\ UNCHANGED vulnerable_accounts
                  ELSE /\ Return(p, Respond(200, "Vulnerable transfer processed."))
                       /\ vulnerable_accounts' =
                             [vulnerable_accounts EXCEPT ![req[p].to].balance =
                                 WrappingAdd(a.balance, req[p].amount)]
                       /\ vuln_lock' = Unlock(vuln_lock)
    /\ UNCHANGED <<overflow_checks, secure_accounts, sec_lock, next_id, req,
                   from_account, to_account, pre, dropped, nonneg_creates, nreq>>

---------------------------------------------------------------------------
(* secure_transfer *)

(* a lock() that does not wait for the current holder *)
SecureLockNoExclusion(p) ==
    /\ pc[p] = "s_lock"
    /\ IF sec_lock.poisoned
       THEN Panic(p) /\ UNCHANGED <<sec_lock, pre>>
       ELSE /\ Goto(p, "s_same")
            /\ sec_lock' = [sec_lock EXCEPT !.holder = p]
            /\ pre' = [pre EXCEPT ![p] = secure_accounts]
    /\ UNCHANGED <<overflow_checks, vulnerable_accounts, secure_accounts, vuln_lock,
                   next_id, req, from_account, to_account, dropped, nonneg_creates, nreq>>

(* data.secure_accounts.lock().unwrap() *)
SecureLock(p) ==
    /\ pc[p] = "s_lock"
    /\ sec_lock.holder = 0
    /\ IF sec_lock.poisoned
       THEN Panic(p) /\ UNCHANGED <<sec_lock, pre>>
       ELSE /\ Goto(p, "s_same")
            /\ sec_lock' = [sec_lock EXCEPT !.holder = p]
            /\ pre' = [pre EXCEPT ![p] = secure_accounts]
    /\ UNCHANGED <<overflow_checks, vulnerable_accounts, secure_accounts, vuln_lock,
                   next_id, req, from_account, to_account, dropped, nonneg_creates, nreq>>

(* a handler without the same-account check *)
SecureSameSkipped(p) ==
    /\ pc[p] = "s_same"
    /\ Goto(p, "s_remove_from")
    /\ UNCHANGED <<overflow_checks, vulnerable_accounts, secure_accounts, vuln_lock,
                   sec_lock, next_id, req, from_account, to_account, pre, dropped,
                   nonneg_creates, nreq>>

(* if req.from_account == req.to_account *)
SecureSame(p) ==
    /\ pc[p] = "s_same"
    /\ IF req[p].from = req[p].to
       THEN /\ Return(p, Respond(400, "Sender and receiver accounts cannot be the same."))
            /\ sec_lock' = Unlock(sec_lock)
       ELSE /\ Goto(p, "s_remove_from")
            /\ UNCHANGED sec_lock
    /\ UNCHANGED <<overflow_checks, vulnerable_accounts, secure_accounts, vuln_lock,
                   next_id, req, from_account, to_account, pre, dropped, nonneg_creates,
                   nreq>>

(* let mut from_account = match accounts.remove(&req.from_account) *)
SecureRemoveFrom(p) ==
    /\ pc[p] = "s_remove_from"
    /\ LET removed == MapGet(secure_accounts, req[p].from)
       IN IF removed = {}
          THEN /\ Return(p, Respond(404, "Sender account not found."))
               /\ sec_lock' = Unlock(sec_lock)
               /\ UNCHANGED <<secure_accounts, from_account>>
          ELSE /\ Goto(p, "s_remove_to")
               /\ secure_accounts' = MapRemove(secure_accounts, req[p].from)
               /\ from_account' = [from_account EXCEPT ![p] = removed]
               /\ UNCHANGED sec_lock
    /\ UNCHANGED <<overflow_checks, vulnerable_accounts, vuln_lock, next_id, req,
                   to_account, pre, dropped, nonneg_creates, nreq>>

(* let mut to_account = match accounts.remove(&req.to_account); on None the
   from_account is inserted back under its own account_number *)
SecureRemoveTo(p) ==
    /\ pc[p] = "s_remove_to"
    /\ LET removed == MapGet(secure_accounts, req[p].to)
           from == Unwrap(from_account[p])
       IN IF removed = {}
          THEN /\ secure_accounts' = PutBack(secure_accounts, from)
               /\ from_account' = [from_account EXCEPT ![p] = {}]
               /\ Return(p, Respond(404, "Receiver account not found."))
               /\ sec_lock' = Unlock(sec_lock)
               /\ UNCHANGED to_account
          ELSE /\ Goto(p, "s_withdraw")
               /\ secure_accounts' = MapRemove(secure_accounts, req[p].to)
               /\ to_account' = [to_account EXCEPT ![p] = removed]
               /\ UNCHANGED <<sec_lock, from_account>>
    /\ UNCHANGED <<overflow_checks, vulnerable_accounts, vuln_lock, next_id, req,
                   pre, dropped, nonneg_creates, nreq>>

(* if let Err(e) = from_account.withdraw(req.amount): both accounts are inserted
   back and e is the body of a 400 *)
SecureWithdraw(p) ==
    /\ pc[p] = "s_withdraw"
    /\ LET from == Unwrap(from_account[p])
           to == Unwrap(to_account[p])
           w == Withdraw(from, req[p].amount)
       IN IF ~w.ok
          THEN /\ secure_accounts' = PutBack(PutBack(secure_accounts, w.account), to)
               /\ from_account' = [from_account EXCEPT ![p] = {}]
               /\ to_account' = [to_account EXCEPT ![p] = {}]
               /\ Return(p, Respond(400, w.err))
               /\ sec_lock' = Unlock(sec_lock)
          ELSE /\ Goto(p, "s_deposit")
               /\ from_account' = [from_account EXCEPT ![p] = {w.account}]
               /\ UNCHANGED <<secure_accounts, to_account, sec_lock>>
    /\ UNCHANGED <<overflow_checks, vulnerable_accounts, vuln_lock, next_id, req,
                   pre, dropped, nonneg_creates, nreq>>

(* to_account.deposit(req.amount): a panic unwinds through the handler, dropping
   both detached accounts and poisoning the Mutex *)
SecureDeposit(p) ==
    /\ pc[p] = "s_deposit"
    /\ LET d == Deposit(Unwrap(to_account[p]), req[p].amount)
       IN IF d.panic
          THEN /\ Panic(p)
               /\ dropped' = dropped \cup from_account[p] \cup to_account[p]
               /\ from_account' = [from_account EXCEPT ![p] = {}]
               /\ to_account' = [to_account EXCEPT ![p] = {}]
               /\ sec_lock' = UnlockPanicking(sec_lock)
          ELSE /\ Goto(p, "s_commit")
               /\ to_account' = [to_account EXCEPT ![p] = {d.account}]
               /\ UNCHANGED <<from_account, dropped, sec_lock>>
    /\ UNCHANGED <<overflow_checks, vulnerable_accounts, secure_accounts, vuln_lock,
                   next_id, req, pre, nonneg_creates, nreq>>

(* a commit that also writes the two accounts into the vulnerable store *)
SecureCommitMirrored(p) ==
    /\ pc[p] = "s_commit"
    /\ LET from == Unwrap(from_account[p])
           to == Unwrap(to_account[p])
       IN /\ secure_accounts' =
                MapInsert(MapInsert(secure_accounts, from.account_number, from),
                          to.account_number, to)
          /\ vulnerable_accounts' =
                MapInsert(MapInsert(vulnerable_accounts, from.account_number, from),
                          to.account_number, to)
    /\ from_account' = [from_account EXCEPT ![p] = {}]
    /\ to_account' = [to_account EXCEPT ![p] = {}]
    /\ Return(p, Respond(200, "Secure transfer successful."))
    /\ sec_lock' = Unlock(sec_lock)
    /\ UNCHANGED <<overflow_checks, vuln_lock, next_id, req,
                   pre, dropped, nonneg_creates, nreq>>

(* the two inserts that commit, and the 200 *)
SecureCommit(p) ==
    /\ pc[p] = "s_commit"
    /\ LET from == Unwrap(from_account[p])
           to == Unwrap(to_account[p])
       IN secure_accounts' =
             MapInsert(MapInsert(secure_accounts, from.account_number, from),
                       to.account_number, to)
    /\ from_account' = [from_account EXCEPT ![p] = {}]
    /\ to_account' = [to_account EXCEPT ![p] = {}]
    /\ Return(p, Respond(200, "Secure transfer successful."))
    /\ sec_lock' = Unlock(sec_lock)
    /\ UNCHANGED <<overflow_checks, vulnerable_accounts, vuln_lock, next_id, req,
                   pre, dropped, nonneg_creates, nreq>>

---------------------------------------------------------------------------

Next ==
    \E p \in Workers :
        \/ ReqCreate(p)
        \/ ReqGet(p)
        \/ ReqVulnerable(p)
        \/ ReqSecure(p)
        \/ CreateLockVuln(p)
        \/ CreateLockSec(p)
        \/ CreateInsert(p)
        \/ GetLock(p)
        \/ GetRead(p)
        \/ VulnLock(p)
        \/ VulnDebit(p)
        \/ VulnCredit(p)
        \/ SecureLock(p)
        \/ SecureSame(p)
        \/ SecureRemoveFrom(p)
        \/ SecureRemoveTo(p)
        \/ SecureWithdraw(p)
        \/ SecureDeposit(p)
        \/ SecureCommit(p)

Spec == Init /\ [][Next]_vars

---------------------------------------------------------------------------
(* Vocabulary of the properties *)

(* The outcome of a secure transfer that a response body stands for. *)
OutcomeOf(resp) ==
    CASE resp.body = "Secure transfer successful." -> "Committed"
      [] resp.body = "Sender and receiver accounts cannot be the same." -> "SameAccount"
      [] resp.body = "Sender account not found." -> "SourceNotFound"
      [] resp.body = "Receiver account not found." -> "DestinationNotFound"
      [] resp.body = "Withdrawal amount must be positive." -> "InvalidAmount"
      [] resp.body = "Insufficient funds." -> "InsufficientFunds"
      [] OTHER -> "None"

AbortReasons == {"SameAccount", "SourceNotFound", "DestinationNotFound",
                 "InvalidAmount", "InsufficientFunds"}

IsSecure(p) == req[p].kind = "secure"

(* worker p's secure transfer has returned its response *)
SecureDone(p) == IsSecure(p) /\ pc[p] = "done"

(* the step in which worker p's secure transfer returns and releases the lock *)
SecureReturns(p) == IsSecure(p) /\ pc[p] # "done" /\ pc'[p] = "done"

(* worker p holds the secure store's lock *)
HoldsSecure(p) ==
    pc[p] \in {"c_insert", "g_read", "s_same", "s_remove_from", "s_remove_to",
               "s_withdraw", "s_deposit", "s_commit"}

(* worker p waits for the secure store's lock *)
WaitsSecure(p) == pc[p] \in {"c_lock_sec", "g_lock", "s_lock"}

(* the entries worker p's transfer holds outside the map *)
Detached(p) == from_account[p] \cup to_account[p]

(* a + b as <<floor((a + b) / 2), (a + b) mod 2>>: exact for i32 a and b, and
   computed without leaving i32 *)
HalvedSum(a, b) ==
    <<(a \div 2) + (b \div 2) + (((a % 2) + (b % 2)) \div 2), ((a % 2) + (b % 2)) % 2>>

---------------------------------------------------------------------------
(* C1: when a secure transfer returns any of the abort outcomes (SameAccount,
   SourceNotFound, DestinationNotFound, InvalidAmount, InsufficientFunds), the
   secure store it leaves is the store it found when it took the lock: the same
   identifiers with the same accounts. *)
AbortedTransferRestoresStore ==
    [][\A p \in Workers :
          (SecureReturns(p) /\ OutcomeOf(response'[p]) \in AbortReasons)
              => secure_accounts' = pre[p]]_vars

(* an abort after both entries were detached, on a store that still holds them *)
AbortedTransferWitness ==
    \E p \in Workers :
        /\ SecureDone(p)
        /\ OutcomeOf(response[p]) \in {"InsufficientFunds", "InvalidAmount"}
        /\ {req[p].from, req[p].to} \subseteq DOMAIN secure_accounts

(* C2: on every commit, balance(from) + balance(to) after the transfer equals
   balance(from) + balance(to) before it, as integers. *)
CommitConservesTotal ==
    [][\A p \in Workers :
          (SecureReturns(p) /\ OutcomeOf(response'[p]) = "Committed")
              => HalvedSum(secure_accounts'[req[p].from].balance,
                           secure_accounts'[req[p].to].balance)
                 = HalvedSum(pre[p][req[p].from].balance,
                             pre[p][req[p].to].balance)]_vars

(* C3: if every account was created with a balance >= 0, then whenever the secure
   store's lock is free every balance in the secure store is >= 0. *)
BalancesStayNonNegative ==
    (nonneg_creates /\ sec_lock.holder = 0)
        => \A id \in DOMAIN secure_accounts : secure_accounts[id].balance >= 0

(* C4, as stated: a secure transfer whose amount exceeds the balance of its
   source returns InsufficientFunds and leaves the store unchanged. *)
AmountAboveBalanceIsInsufficientFunds ==
    [][\A p \in Workers :
          (/\ SecureReturns(p)
           /\ req[p].from \in DOMAIN pre[p]
           /\ req[p].amount > pre[p][req[p].from].balance)
              => /\ OutcomeOf(response'[p]) = "InsufficientFunds"
                 /\ secure_accounts' = pre[p]]_vars

(* C4, amended: a secure transfer with from # to, both identifiers present and
   amount > 0 whose amount exceeds the balance of its source returns
   InsufficientFunds and leaves the store unchanged. *)
SufficiencyGate ==
    [][\A p \in Workers :
          (/\ SecureReturns(p)
           /\ req[p].from # req[p].to
           /\ {req[p].from, req[p].to} \subseteq DOMAIN pre[p]
           /\ req[p].amount > 0
           /\ req[p].amount > pre[p][req[p].from].balance)
              => /\ OutcomeOf(response'[p]) = "InsufficientFunds"
                 /\ secure_accounts' = pre[p]]_vars

(* a returned transfer between two present accounts that asked for more than the
   source held *)
SufficiencyGateWitness ==
    \E p \in Workers :
        /\ SecureDone(p)
        /\ req[p].from # req[p].to
        /\ {req[p].from, req[p].to} \subseteq DOMAIN pre[p]
        /\ req[p].amount > 0
        /\ req[p].amount > pre[p][req[p].from].balance
        /\ OutcomeOf(response[p]) = "InsufficientFunds"

(* C5: a secure transfer with from_account = to_account never detaches an entry and
   never returns anything but SameAccount, for every amount and whether or not the
   identifier is in the store; the store it leaves is the store it found. *)
SelfTransferIsSameAccount ==
    /\ [](\A p \in Workers :
             (IsSecure(p) /\ req[p].from = req[p].to)
                 => /\ Detached(p) = {}
                    /\ (pc[p] = "done" => OutcomeOf(response[p]) = "SameAccount"))
    /\ [][\A p \in Workers :
             (SecureReturns(p) /\ req[p].from = req[p].to)
                 => secure_accounts' = pre[p]]_vars

(* a self-transfer on a present identifier, with an amount below the balance, has
   returned SameAccount *)
SelfTransferWitness ==
    \E p \in Workers :
        /\ SecureDone(p)
        /\ req[p].from = req[p].to
        /\ req[p].from \in DOMAIN secure_accounts
        /\ req[p].amount > 0
        /\ req[p].amount <= secure_accounts[req[p].from].balance
        /\ OutcomeOf(response[p]) = "SameAccount"

(* C6: whenever a worker holds the secure store's lock, and so can read or write
   the map, no other worker's transfer has an entry detached from the map (debited
   or not), and no entry was lost from it by an unwinding transfer. *)
NoIntermediateStateObserved ==
    \A p \in Workers :
        HoldsSecure(p) =>
            /\ dropped = {}
            /\ \A q \in Workers \ {p} : Detached(q) = {}

(* a request waits for the lock while a transfer holds a debited source and the
   destination outside the map *)
IntermediateStateWitness ==
    \E p \in Workers, q \in Workers :
        /\ p # q
        /\ WaitsSecure(p)
        /\ pc[q] = "s_deposit"

(* C7: for a secure transfer with from # to: if from is absent the outcome is
   SourceNotFound, for every amount and also when to is absent; if from is present
   and to is absent the outcome is DestinationNotFound, for every amount, and the
   source is back under its identifier with its balance; the store is unchanged. *)
MissingAccountOutcomes ==
    [][\A p \in Workers :
          (SecureReturns(p) /\ req[p].from # req[p].to)
              => /\ (req[p].from \notin DOMAIN pre[p]
                     => /\ OutcomeOf(response'[p]) = "SourceNotFound"
                        /\ secure_accounts' = pre[p])
                 /\ ((req[p].from \in DOMAIN pre[p] /\ req[p].to \notin DOMAIN pre[p])
                     => /\ OutcomeOf(response'[p]) = "DestinationNotFound"
                        /\ req[p].from \in DOMAIN secure_accounts'
                        /\ secure_accounts'[req[p].from] = pre[p][req[p].from]
                        /\ secure_accounts'[req[p].from].account_number = req[p].from
                        /\ secure_accounts' = pre[p])]_vars

(* a transfer from a present source to an absent destination has returned *)
DestinationNotFoundWitness ==
    \E p \in Workers :
        /\ SecureDone(p)
        /\ req[p].from # req[p].to
        /\ req[p].from \in DOMAIN secure_accounts
        /\ req[p].to \notin DOMAIN secure_accounts
        /\ OutcomeOf(response[p]) = "DestinationNotFound"

(* C8: a secure transfer with from # to, both present, amount > 0 and
   balance(from) >= amount returns Committed with balance(from) = old - amount and
   balance(to) = old + amount, both under their own identifiers. *)
FundedTransferCommits ==
    [][\A p \in Workers :
          (/\ SecureReturns(p)
           /\ req[p].from # req[p].to
           /\ {req[p].from, req[p].to} \subseteq DOMAIN pre[p]
           /\ req[p].amount > 0
           /\ pre[p][req[p].from].balance >= req[p].amount)
              => /\ OutcomeOf(response'[p]) = "Committed"
                 /\ {req[p].from, req[p].to} \subseteq DOMAIN secure_accounts'
                 /\ secure_accounts'[req[p].from] =
                       [account_number |-> req[p].from,
                        balance |-> pre[p][req[p].from].balance - req[p].amount]
                 /\ ~AddOverflows(pre[p][req[p].to].balance, req[p].amount)
                 /\ secure_accounts'[req[p].to] =
                       [account_number |-> req[p].to,
                        balance |-> WrappingAdd(pre[p][req[p].to].balance, req[p].amount)]]_vars

(* C9: every secure transfer ends Committed or Aborted, none ends with an entry
   lost from the store, and the secure store's lock is never left poisoned. *)
TransfersEndCleanly ==
    /\ ~sec_lock.poisoned
    /\ dropped = {}
    /\ \A p \in Workers :
          (IsSecure(p) /\ pc[p] \in {"done", "panicked"})
              => OutcomeOf(response[p]) \in AbortReasons \cup {"Committed"}

(* C10: the deposit of step 5 cannot fail: from the deposit the transfer always
   goes on to the commit. *)
DepositCannotFail ==
    [][\A p \in Workers : pc[p] = "s_deposit" => pc'[p] \in {"s_deposit", "s_commit"}]_vars

(* C11: every secure transfer that has run produced exactly one of the six
   outcomes, and the status of its response is 404 for SourceNotFound and
   DestinationNotFound, 400 for SameAccount, InsufficientFunds and InvalidAmount,
   and 200 for Committed. *)
OutcomeStatusMapping ==
    \A p \in Workers :
        (IsSecure(p) /\ pc[p] \in {"done", "panicked"}) =>
            LET o == OutcomeOf(response[p])
                s == response[p].status
            IN /\ o \in AbortReasons \cup {"Committed"}
               /\ (o \in {"SourceNotFound", "DestinationNotFound"} => s = 404)
               /\ (o \in {"SameAccount", "InsufficientFunds", "InvalidAmount"} => s = 400)
               /\ (o = "Committed" => s = 200)

(* C12: the withdraw of a secure transfer fails with InvalidAmount if amount <= 0,
   whatever the balance; fails with InsufficientFunds if amount > 0 and
   balance < amount; and otherwise leaves the source with exactly balance - amount.
   On either failure the source goes back with its balance unchanged. *)
WithdrawContract ==
    [][\A p \in Workers :
          (pc[p] = "s_withdraw" /\ pc'[p] # "s_withdraw") =>
              LET old == Unwrap(from_account[p])
                  a == req[p].amount
              IN /\ (a <= 0 =>
                        /\ pc'[p] = "done"
                        /\ OutcomeOf(response'[p]) = "InvalidAmount"
                        /\ secure_accounts'[old.account_number] = old)
                 /\ ((a > 0 /\ old.balance < a) =>
                        /\ pc'[p] = "done"
                        /\ OutcomeOf(response'[p]) = "InsufficientFunds"
                        /\ secure_accounts'[old.account_number] = old)
                 /\ ((a > 0 /\ old.balance >= a) =>
                        /\ pc'[p] = "s_deposit"
                        /\ from_account'[p] =
                              {[account_number |-> old.account_number,
                                balance |-> old.balance - a]})]_vars

(* withdraw(1) on an account created with balance -5 has failed with
   InsufficientFunds and the balance is still -5 *)
WithdrawWitness ==
    \E p \in Workers :
        /\ SecureDone(p)
        /\ OutcomeOf(response[p]) = "InsufficientFunds"
        /\ req[p].amount = 1
        /\ req[p].from \in DOMAIN secure_accounts
        /\ secure_accounts[req[p].from].balance = -5

(* C13: the deposit of a secure transfer increases the balance of the destination
   by exactly amount when amount > 0 and leaves it unchanged when amount <= 0, and
   reports no error. *)
DepositAddsExactly ==
    [][\A p \in Workers :
          (pc[p] = "s_deposit" /\ pc'[p] # "s_deposit") =>
              LET old == Unwrap(to_account[p])
                  a == req[p].amount
              IN /\ pc'[p] = "s_commit"
                 /\ (a > 0 =>
                        /\ ~AddOverflows(old.balance, a)
                        /\ to_account'[p] =
                              {[account_number |-> old.account_number,
                                balance |-> WrappingAdd(old.balance, a)]})
                 /\ (a <= 0 => to_account'[p] = {old})]_vars

(* worker p's request is a get that has returned *)
GetDone(p) == req[p].kind = "get" /\ pc[p] = "done"

(* C14: a create that completes adds exactly one entry to the secure store, under
   an identifier that was never used before, with the requested initial balance
   verbatim (negative values included), answers with that identifier and balance,
   and leaves every existing entry as it was. *)
CreateAddsOneEntry ==
    [][\A p \in Workers :
          (pc[p] = "c_insert" /\ pc'[p] = "done") =>
              \E id \in (DOMAIN secure_accounts') \ (DOMAIN secure_accounts) :
                  /\ DOMAIN secure_accounts' = (DOMAIN secure_accounts) \cup {id}
                  /\ id \notin {a.account_number : a \in dropped}
                  /\ secure_accounts'[id] =
                        [account_number |-> id, balance |-> req[p].amount]
                  /\ response'[p].status = 200
                  /\ response'[p].account =
                        {[account_number |-> id, balance |-> req[p].amount]}
                  /\ \A k \in DOMAIN secure_accounts :
                        secure_accounts'[k] = secure_accounts[k]]_vars

(* an account was created with balance -5 beside an existing one *)
CreateWitness ==
    \E p \in Workers :
        /\ req[p].kind = "create"
        /\ pc[p] = "done"
        /\ req[p].amount = -5
        /\ \E a \in response[p].account :
              /\ a.account_number \in DOMAIN secure_accounts
              /\ secure_accounts[a.account_number].balance = -5
              /\ (DOMAIN secure_accounts) \ {a.account_number} # {}

(* C15: no step of a get changes either store; a get answers with the entry the
   store held for its identifier when it took the lock, or with 404 if there was
   none; so two gets of one identifier on the same store give identical results. *)
GetIsReadOnlyAndRepeatable ==
    /\ [](\A p \in Workers :
             GetDone(p) =>
                 response[p] = IF req[p].from \in DOMAIN pre[p]
                               THEN RespondJson(pre[p][req[p].from])
                               ELSE Respond(404, "Account not found"))
    /\ [](\A p \in Workers, q \in Workers :
             (GetDone(p) /\ GetDone(q) /\ req[p].from = req[q].from /\ pre[p] = pre[q])
                 => response[p] = response[q])
    /\ [][\A p \in Workers :
             (req[p].kind = "get" /\ pc[p] \in {"g_lock", "g_read"} /\ pc'[p] # pc[p])
                 => /\ secure_accounts' = secure_accounts
                    /\ vulnerable_accounts' = vulnerable_accounts]_vars

(* two gets of the same present identifier have returned the same account, and the
   account is still in the store *)
GetTwiceWitness ==
    \E p \in Workers, q \in Workers :
        /\ p # q
        /\ GetDone(p) /\ GetDone(q)
        /\ req[p].from = req[q].from
        /\ req[p].from \in DOMAIN secure_accounts
        /\ response[p].account = {secure_accounts[req[p].from]}
        /\ response[q] = response[p]

(* C16: whenever the secure store's lock is free, every identifier that was ever
   inserted is in the store, under an account whose account_number is its key. *)
AccountsAreNeverDestroyed ==
    sec_lock.holder = 0 =>
        /\ (1..(next_id - 1)) \subseteq DOMAIN secure_accounts
        /\ \A id \in DOMAIN secure_accounts : secure_accounts[id].account_number = id

---------------------------------------------------------------------------
(* Scheduling: a worker thread that can take the next step of its handler
   eventually takes it.  LockSpec is Spec with that fairness, on the creates
   with initial balance 1 or i32::MAX and the transfers of amount 1. *)

HandlerStep(p) ==
    \/ CreateLockVuln(p) \/ CreateLockSec(p) \/ CreateInsert(p)
    \/ GetLock(p) \/ GetRead(p)
    \/ VulnLock(p) \/ VulnDebit(p) \/ VulnCredit(p)
    \/ SecureLock(p) \/ SecureSame(p) \/ SecureRemoveFrom(p) \/ SecureRemoveTo(p)
    \/ SecureWithdraw(p) \/ SecureDeposit(p) \/ SecureCommit(p)

LockNext ==
    \E p \in Workers :
        \/ ReqCreate(p) /\ req'[p].amount \in {1, MaxI32}
        \/ ReqGet(p)
        \/ ReqVulnerable(p) /\ req'[p].amount = 1
        \/ ReqSecure(p) /\ req'[p].amount = 1
        \/ HandlerStep(p)

LockSpec == Init /\ [][LockNext]_vars /\ \A p \in Workers : WF_vars(HandlerStep(p))

(* worker p is inside lock() *)
WaitsForLock(p) == pc[p] \in {"c_lock_vuln", "c_lock_sec", "g_lock", "v_lock", "s_lock"}

(* C17: create_account waits for the secure store's lock holding the vulnerable
   store's lock, no worker that waits for the vulnerable store's lock holds the
   secure store's lock, and every request that waits for a lock eventually gets
   past lock(). *)
NoDeadlock ==
    /\ [](\A p \in Workers :
             /\ pc[p] = "c_lock_sec" => (vuln_lock.holder = p /\ sec_lock.holder # p)
             /\ pc[p] \in {"c_lock_vuln", "v_lock"} => sec_lock.holder # p)
    /\ \A p \in Workers : WaitsForLock(p) ~> ~WaitsForLock(p)

(* a create holds the vulnerable store's lock and waits for the secure store's
   lock, which a transfer holds *)
LockWaitWitness ==
    \E p \in Workers, q \in Workers :
        /\ pc[p] = "c_lock_sec"
        /\ vuln_lock.holder = p
        /\ sec_lock.holder = q
        /\ IsSecure(q)

---------------------------------------------------------------------------
(* FrameSpec: the service after MaxAccounts + 1 creates, with every choice of
   initial balances, serving one more request, a transfer of either kind between
   any two of the identifiers *)

FrameIds == 1..(MaxAccounts + 1)

FrameInit ==
    /\ overflow_checks \in BOOLEAN
    /\ \E b \in [FrameIds -> InitialBalances] :
          /\ vulnerable_accounts = [id \in FrameIds |-> NewAccount(id, b[id])]
          /\ secure_accounts = [id \in FrameIds |-> NewAccount(id, b[id])]
          /\ nonneg_creates = (\A id \in FrameIds : b[id] >= 0)
    /\ vuln_lock = FreeLock
    /\ sec_lock = FreeLock
    /\ next_id = MaxAccounts + 2
    /\ pc = [p \in Workers |-> "idle"]
    /\ req = [p \in Workers |-> NoRequest]
    /\ from_account = [p \in Workers |-> {}]
    /\ to_account = [p \in Workers |-> {}]
    /\ response = [p \in Workers |-> NoResponse]
    /\ pre = [p \in Workers |-> EmptyMap]
    /\ dropped = {}
    /\ nreq = MaxRequests - 1

(* POST /vulnerable/transfer *)
FrameReqVulnerable(p) ==
    /\ CanAccept(p)
    /\ \E f \in FrameIds, t \in FrameIds, a \in Amounts :
          Accept(p, [kind |-> "vulnerable", from |-> f, to |-> t, amount |-> a], "v_lock")

(* POST /secure/transfer *)
FrameReqSecure(p) ==
    /\ CanAccept(p)
    /\ \E f \in FrameIds, t \in FrameIds, a \in Amounts :
          Accept(p, [kind |-> "secure", from |-> f, to |-> t, amount |-> a], "s_lock")

FrameNext ==
    \E p \in Workers :
        \/ FrameReqVulnerable(p)
        \/ FrameReqSecure(p)
        \/ VulnLock(p)
        \/ VulnDebit(p)
        \/ VulnCredit(p)
        \/ SecureLock(p)
        \/ SecureSame(p)
        \/ SecureRemoveFrom(p)
        \/ SecureRemoveTo(p)
        \/ SecureWithdraw(p)
        \/ SecureDeposit(p)
        \/ SecureCommit(p)

FrameSpec == FrameInit /\ [][FrameNext]_vars

(* C18: no step of a secure transfer changes the vulnerable store or any entry of
   the secure store other than those of from and to, whether the transfer commits,
   aborts or unwinds; no step of a vulnerable transfer changes the secure store. *)
TransferFrame ==
    [][\A p \in Workers :
          pc'[p] # pc[p] =>
              /\ pc[p] \in {"s_lock", "s_same", "s_remove_from", "s_remove_to",
                            "s_withdraw", "s_deposit", "s_commit"}
                    => /\ vulnerable_accounts' = vulnerable_accounts
                       /\ \A id \in ((DOMAIN secure_accounts) \cup (DOMAIN secure_accounts'))
                                        \ {req[p].from, req[p].to} :
                             MapGet(secure_accounts', id) = MapGet(secure_accounts, id)
              /\ pc[p] \in {"v_lock", "v_debit", "v_credit"}
                    => secure_accounts' = secure_accounts]_vars

(* a secure transfer has committed in a store that holds a third account *)
TransferFrameWitness ==
    \E p \in Workers :
        /\ SecureDone(p)
        /\ OutcomeOf(response[p]) = "Committed"
        /\ (DOMAIN secure_accounts) \ {req[p].from, req[p].to} # {}
        /\ DOMAIN vulnerable_accounts = DOMAIN secure_accounts

---------------------------------------------------------------------------
(* worker p's vulnerable transfer takes the step that follows its debit / its credit *)
LeavesDebit(p) == pc[p] = "v_debit" /\ pc'[p] # "v_debit"

LeavesCredit(p) == pc[p] = "v_credit" /\ pc'[p] # "v_credit"

(* the sender is absent: 404, nothing changed *)
SenderAbsentChangesNothing(p) ==
    /\ pc'[p] = "done"
    /\ response'[p].status = 404
    /\ vulnerable_accounts' = vulnerable_accounts
    /\ secure_accounts' = secure_accounts

(* the receiver is absent: 404, and the debit already made stays *)
ReceiverAbsentKeepsDebit(p) ==
    /\ pc'[p] = "done"
    /\ response'[p].status = 404
    /\ vulnerable_accounts' = vulnerable_accounts

(* C19, as stated: a vulnerable transfer with an absent sender changes nothing;
   with a present sender it reduces the sender's balance by amount, whatever the
   amount and the balance; with an absent receiver it then answers 404 and leaves
   that debit in place. *)
VulnerableDebitIsExact ==
    [][\A p \in Workers :
          /\ LeavesDebit(p) =>
                IF req[p].from \notin DOMAIN vulnerable_accounts
                THEN SenderAbsentChangesNothing(p)
                ELSE /\ pc'[p] = "v_credit"
                     /\ ~SubOverflows(vulnerable_accounts[req[p].from].balance, req[p].amount)
                     /\ vulnerable_accounts' =
                           [vulnerable_accounts EXCEPT ![req[p].from].balance =
                               WrappingSub(@, req[p].amount)]
          /\ (LeavesCredit(p) /\ req[p].to \notin DOMAIN vulnerable_accounts)
                => ReceiverAbsentKeepsDebit(p)]_vars

(* C19, amended: as stated, except that the debit is i32 arithmetic: when
   balance - amount leaves the i32 range, a build without overflow checks leaves
   the balance reduced by amount modulo 2^32, and a build with overflow checks
   panics, answering nothing, changing no balance and poisoning the lock. *)
VulnerableDebitIsUnchecked ==
    [][\A p \in Workers :
          /\ LeavesDebit(p) =>
                IF req[p].from \notin DOMAIN vulnerable_accounts
                THEN SenderAbsentChangesNothing(p)
                ELSE IF overflow_checks
                        /\ SubOverflows(vulnerable_accounts[req[p].from].balance, req[p].amount)
                     THEN /\ pc'[p] = "panicked"
                          /\ response'[p] = NoResponse
                          /\ vulnerable_accounts' = vulnerable_accounts
                          /\ vuln_lock'.poisoned
                     ELSE /\ pc'[p] = "v_credit"
                          /\ vulnerable_accounts' =
                                [vulnerable_accounts EXCEPT ![req[p].from].balance =
                                    WrappingSub(@, req[p].amount)]
          /\ (LeavesCredit(p) /\ req[p].to \notin DOMAIN vulnerable_accounts)
                => ReceiverAbsentKeepsDebit(p)]_vars

(* every account was created with a balance >= 0, a vulnerable transfer to an
   absent receiver has answered 404, and its sender's balance is negative *)
VulnerableNoRollbackWitness ==
    \E p \in Workers :
        /\ req[p].kind = "vulnerable"
        /\ pc[p] = "done"
        /\ response[p] = Respond(404, "Receiver account not found")
        /\ nonneg_creates
        /\ req[p].amount > 0
        /\ req[p].from \in DOMAIN vulnerable_accounts
        /\ vulnerable_accounts[req[p].from].balance < 0

(* C20: whenever neither lock is held the two stores hold the same identifiers,
   and a create inserts one identifier with the same balance into both. *)
StoresHoldSameIds ==
    /\ []((vuln_lock.holder = 0 /\ sec_lock.holder = 0)
             => DOMAIN vulnerable_accounts = DOMAIN secure_accounts)
    /\ [][\A p \in Workers :
             (pc[p] = "c_insert" /\ pc'[p] = "done") =>
                 \E id \in (DOMAIN secure_accounts') \ (DOMAIN secure_accounts) :
                     /\ id \notin DOMAIN vulnerable_accounts
                     /\ id \in DOMAIN vulnerable_accounts'
                     /\ vulnerable_accounts'[id] = secure_accounts'[id]
                     /\ secure_accounts'[id].balance = req[p].amount]_vars

====
